---- MODULE Spec2Model ----
(***************************************************************************)
(* Plan store of src/server.js: an Express application that keeps JSON     *)
(* "plan" documents in Redis under their objectId, answers conditional     *)
(* reads by ETag and deletes by key.  Every request is a small process:    *)
(* the synchronous middleware chain runs in its arrival step, and each     *)
(* awaited Redis command is one further step, so requests interleave at    *)
(* the awaits exactly as the handlers do.                                  *)
(***************************************************************************)
EXTENDS Integers, Sequences, FiniteSets, TLC

\* ------------------------------------------------------------------ bounds
\* total number of requests of one run
MaxReq == 2
\* number of requests that may be between arrival and response at once
MaxInFlight == 2

\* ------------------------------------------------------------ JSON values
\* A JSON scalar.  A string is either a word or a text of dash-separated
\* decimal numerals ("25-12-2023" is nums <<25, 12, 2023>>); a number has its
\* value in nums.  The same record shape also carries the tokens of a
\* serialized document (type "punct" and "key").
Str(w) == [type |-> "string", word |-> w, nums |-> <<>>]
DateStr(a, b, c) == [type |-> "string", word |-> "", nums |-> <<a, b, c>>]
Num(n) == [type |-> "number", word |-> "", nums |-> <<n>>]
Punct(p) == [type |-> "punct", word |-> p, nums |-> <<>>]
KeyTok(k) == [type |-> "key", word |-> k, nums |-> <<>>]

\* JavaScript truthiness of a scalar: "" and 0 are falsy
Truthy(v) ==
  IF v.type = "string" THEN ~(v.word = "" /\ v.nums = <<>>)
  ELSE v.nums # <<0>>

\* A document (req.body) is an object: a sequence of <<name, value>> members
\* in insertion order, names distinct.
HasField(doc, f) == \E i \in 1..Len(doc) : doc[i][1] = f
FieldIndex(doc, f) == CHOOSE i \in 1..Len(doc) : doc[i][1] = f
Field(doc, f) == doc[FieldIndex(doc, f)][2]

\* ---------------------------------------------------------- transformDate
IsLeap(y) == (y % 4 = 0 /\ y % 100 # 0) \/ y % 400 = 0
DaysInMonth(y, m) ==
  IF m = 2 THEN (IF IsLeap(y) THEN 29 ELSE 28)
  ELSE IF m \in {4, 6, 9, 11} THEN 30 ELSE 31

\* the first two digits of a numeral: what the tokens DD and MM consume
LeadingTwo(n) == IF n < 100 THEN n ELSE IF n < 1000 THEN n \div 10 ELSE n \div 100
\* token YYYY: a two-digit numeral is a year of the current or last century
ParseYear(n) == IF n >= 10 /\ n < 100 THEN (IF n <= 68 THEN 2000 + n ELSE 1900 + n) ELSE n

\* moment(text, 'DD-MM-YYYY').format('YYYY-MM-DD')
MomentReformat(v) ==
  IF v.type = "string" /\ Len(v.nums) = 3
  THEN LET d == LeadingTwo(v.nums[1])
           m == LeadingTwo(v.nums[2])
           y == ParseYear(v.nums[3])
       IN IF m \in 1..12 /\ d >= 1 /\ d <= DaysInMonth(y, m)
          THEN DateStr(y, m, d)
          ELSE Str("Invalid date")
  ELSE Str("Invalid date")

transformDate(doc) ==
  IF HasField(doc, "creationDate") /\ Truthy(Field(doc, "creationDate"))
  THEN [doc EXCEPT ![FieldIndex(doc, "creationDate")] =
          <<"creationDate", MomentReformat(Field(doc, "creationDate"))>>]
  ELSE doc

\* ------------------------------------------------- JSON.stringify / parse
RECURSIVE Members(_, _)
Members(doc, i) ==
  IF i > Len(doc) THEN <<>>
  ELSE (IF i > 1 THEN <<Punct(",")>> ELSE <<>>)
       \o <<KeyTok(doc[i][1]), Punct(":"), doc[i][2]>>
       \o Members(doc, i + 1)

JSONstringify(doc) == <<Punct("{")>> \o Members(doc, 1) \o <<Punct("}")>>

\* members of the token sequence from position i on, up to the closing brace
RECURSIVE ParseMembers(_, _)
ParseMembers(toks, i) ==
  IF i > Len(toks) \/ toks[i] = Punct("}") THEN <<>>
  ELSE IF toks[i] = Punct(",") THEN ParseMembers(toks, i + 1)
  ELSE <<<<toks[i].word, toks[i + 2]>>>> \o ParseMembers(toks, i + 3)

JSONparse(toks) == ParseMembers(toks, 2)

\* ------------------------------------------------------------------ etag
\* The etag package answers '"' + length in hex + '-' + 27 characters of the
\* base64 SHA-1 of the entity + '"'.  The digest is kept symbolic and free of
\* collisions; the length is the length of the entity.
Sha1(entity) == [digest |-> entity]
etag(entity) == [form |-> "strong", len |-> Len(entity), hash |-> Sha1(entity)]

\* the If-None-Match header of a request that has none
NoHeader == [form |-> "absent", len |-> 0, hash |-> Sha1(<<>>)]
\* the weak form W/"..." of a tag
Weak(t) == [t EXCEPT !.form = "weak"]

\* --------------------------------------------------------- validateSchema
\* The plan schema: the required members and the primitive type of each
\* declared property.
planSchema ==
  [required |-> <<"objectId", "creationDate">>,
   properties |-> <<<<"objectId", "string">>, <<"creationDate", "string">>,
                    <<"plan", "string">>>>]

\* validate(req.body): the errors list of the compiled validator, which stops
\* at the first violation (required members first, then property types)
ValidateErrors(schema, doc) ==
  LET missing == {i \in 1..Len(schema.required) : ~HasField(doc, schema.required[i])}
      mistyped == {i \in 1..Len(schema.properties) :
                     /\ HasField(doc, schema.properties[i][1])
                     /\ Field(doc, schema.properties[i][1]).type # schema.properties[i][2]}
      first(S) == CHOOSE i \in S : \A j \in S : i <= j
  IN IF missing # {}
     THEN <<[keyword |-> "required", member |-> schema.required[first(missing)]]>>
     ELSE IF mistyped # {}
     THEN <<[keyword |-> "type", member |-> schema.properties[first(mistyped)][1]]>>
     ELSE <<>>

\* ------------------------------------------------------------------ inputs
Keys == {"k1", "k2"}

PlanA == <<<<"objectId", Str("k1")>>, <<"creationDate", DateStr(25, 12, 2023)>>,
           <<"plan", Str("gold")>>>>
PlanA2 == <<<<"objectId", Str("k1")>>, <<"creationDate", DateStr(1, 2, 2024)>>>>
PlanB == <<<<"plan", Str("gold")>>, <<"objectId", Str("k2")>>,
           <<"creationDate", DateStr(25, 12, 2023)>>>>
PlanNoDate == <<<<"objectId", Str("k1")>>, <<"plan", Str("gold")>>>>
PlanNumId == <<<<"objectId", Num(7)>>, <<"creationDate", DateStr(25, 12, 2023)>>>>
PlanEmptyId == <<<<"objectId", Str("")>>, <<"creationDate", DateStr(25, 12, 2023)>>>>

Docs == {PlanA, PlanA2, PlanB, PlanNoDate, PlanNumId, PlanEmptyId}

\* request headers If-None-Match: none, and the strong and the weak tag of a
\* plan a client has been answered with before
Headers == {NoHeader,
            etag(JSONstringify(transformDate(PlanA))),
            Weak(etag(JSONstringify(transformDate(PlanA))))}

\* a client sends a tag to the URL it was answered with it from
SentTo(key, inm) == inm = NoHeader \/ key = Field(PlanA, "objectId").word

\* ------------------------------------------------------------------- state
VARIABLES
  phase,     \* boot: "connecting", "listening" or "failed"
  isReady,   \* client.isReady
  store,     \* Redis: key -> [val: stored string or <<>>, ver: write stamp]
  writes,    \* number of writes Redis has executed (the write stamps)
  reqs       \* the requests in order of arrival

vars == <<phase, isReady, store, writes, reqs>>

\* Redis answers null for a key it does not hold
Null == <<>>

NoDoc == <<>>

\* a request before any handler has touched it
NewReq(kind, doc, key, inm) ==
  [kind |-> kind, doc |-> doc, key |-> key, inm |-> inm,
   body |-> doc, requestBodyString |-> Null,
   gate |-> FALSE, pc |-> "done", calls |-> <<>>, replies |-> <<>>,
   dataString |-> Null, result |-> 0,
   status |-> 0, message |-> "", errors |-> <<>>, json |-> NoDoc,
   ETag |-> NoHeader, setVer |-> 0, getVer |-> 0, delVer |-> 0]

InFlight == Cardinality({i \in 1..Len(reqs) : reqs[i].pc # "done"})

\* the server as it would be if app.listen were called outside the then
AcceptingAtOnce == Len(reqs) < MaxReq /\ InFlight < MaxInFlight

Accepting == phase = "listening" /\ Len(reqs) < MaxReq /\ InFlight < MaxInFlight

\* Redis outlives the service: at boot a key holds nothing or a record that
\* an earlier run of the service has written under it
Earlier == {PlanA}
Written(k) ==
  {JSONstringify(transformDate(d)) : d \in
     {e \in Earlier : /\ ValidateErrors(planSchema, transformDate(e)) = <<>>
                      /\ Field(e, "objectId") = Str(k)}}

Init ==
  /\ phase = "connecting"
  /\ isReady = FALSE
  /\ store \in [Keys -> [val : {Null} \cup UNION {Written(k) : k \in Keys}, ver : {0}]]
  /\ \A k \in Keys : store[k].val \in {Null} \cup Written(k)
  /\ writes = 0
  /\ reqs = <<>>

\* ---------------------------------------------------------------- boot
\* client.connect() resolves: the server starts to listen
ConnectResolved ==
  /\ phase = "connecting"
  /\ phase' = "listening"
  /\ isReady' = TRUE
  /\ UNCHANGED <<store, writes, reqs>>

\* client.connect() rejects: the error is logged and app.listen never runs
ConnectRejected ==
  /\ phase = "connecting"
  /\ phase' = "failed"
  /\ UNCHANGED <<isReady, store, writes, reqs>>

\* the connection to Redis is lost, and comes back, while serving
ConnectionLost ==
  /\ phase = "listening" /\ isReady
  /\ isReady' = FALSE
  /\ UNCHANGED <<phase, store, writes, reqs>>

ConnectionBack ==
  /\ phase = "listening" /\ ~isReady
  /\ isReady' = TRUE
  /\ UNCHANGED <<phase, store, writes, reqs>>

\* ------------------------------------------------------------ middleware
\* the readiness middleware answers 500 itself when the client is not ready
GateRejected(r) ==
  [r EXCEPT !.status = 500, !.message = "Redis client is not connected"]

\* the validation middleware as it would be if it always called next()
SchemaCheckedAlwaysNext(r, next) == next

\* validateSchema(planSchema): 400 with the errors, or next()
SchemaChecked(r, next) ==
  LET errs == ValidateErrors(planSchema, r.body)
  IN IF errs # <<>>
     THEN [r EXCEPT !.status = 400, !.message = "Validation failed", !.errors = errs]
     ELSE next

\* the handler as it would be if it stored every plan under one fixed key
PostHandlerFixedKey(r) ==
  IF ~(HasField(r.body, "objectId") /\ Truthy(Field(r.body, "objectId")))
  THEN [r EXCEPT !.status = 400, !.requestBodyString = JSONstringify(r.body),
                 !.message = "Missing objectId in the request body."]
  ELSE [r EXCEPT !.requestBodyString = JSONstringify(r.body), !.key = "k1",
                 !.pc = "set", !.calls = <<"set">>]

\* the handler as it would be without its check of objectId
PostHandlerNoIdCheck(r) ==
  [r EXCEPT !.requestBodyString = JSONstringify(r.body),
            !.key = Field(r.body, "objectId").word,
            !.pc = "set", !.calls = <<"set">>]

\* the handler as it would be if it serialized the body as it was received
PostHandlerRaw(r) ==
  IF ~(HasField(r.body, "objectId") /\ Truthy(Field(r.body, "objectId")))
  THEN [r EXCEPT !.status = 400, !.requestBodyString = JSONstringify(r.doc),
                 !.message = "Missing objectId in the request body."]
  ELSE [r EXCEPT !.requestBodyString = JSONstringify(r.doc),
                 !.key = Field(r.body, "objectId").word,
                 !.pc = "set", !.calls = <<"set">>]

\* the synchronous part of the POST handler: serialize, check objectId and
\* send SET
PostHandler(r) ==
  LET s == JSONstringify(r.body)
  IN IF ~(HasField(r.body, "objectId") /\ Truthy(Field(r.body, "objectId")))
     THEN [r EXCEPT !.status = 400, !.requestBodyString = s,
                    !.message = "Missing objectId in the request body."]
     ELSE [r EXCEPT !.requestBodyString = s, !.key = Field(r.body, "objectId").word,
                    !.pc = "set", !.calls = <<"set">>]

\* POST /v1/plan up to its first await
PostPlan(doc) ==
  /\ Accepting
  /\ LET r == NewReq("create", doc, "", NoHeader)
     IN reqs' = Append(reqs,
          IF ~isReady THEN GateRejected(r)
          ELSE LET t == [r EXCEPT !.gate = TRUE, !.body = transformDate(doc)]
               IN SchemaChecked(t, PostHandler(t)))
  /\ UNCHANGED <<phase, isReady, store, writes>>

\* GET /v1/plan/:id up to its await: GET is sent
GetPlan(key, inm) ==
  /\ Accepting
  /\ LET r == NewReq("read", NoDoc, key, inm)
     IN reqs' = Append(reqs,
          IF ~isReady THEN GateRejected(r)
          ELSE [r EXCEPT !.gate = TRUE, !.pc = "get", !.calls = <<"get">>])
  /\ UNCHANGED <<phase, isReady, store, writes>>

\* the route as it would be if it were registered before the readiness
\* middleware
DeletePlanUngated(key) ==
  /\ Accepting
  /\ LET r == NewReq("delete", NoDoc, key, NoHeader)
     IN reqs' = Append(reqs, [r EXCEPT !.gate = TRUE, !.pc = "del", !.calls = <<"del">>])
  /\ UNCHANGED <<phase, isReady, store, writes>>

\* DELETE /v1/plan/:id up to its await: DEL is sent
DeletePlan(key) ==
  /\ Accepting
  /\ LET r == NewReq("delete", NoDoc, key, NoHeader)
     IN reqs' = Append(reqs,
          IF ~isReady THEN GateRejected(r)
          ELSE [r EXCEPT !.gate = TRUE, !.pc = "del", !.calls = <<"del">>])
  /\ UNCHANGED <<phase, isReady, store, writes>>

\* ---------------------------------------------------------- awaited steps
Put(i, r) == reqs' = [reqs EXCEPT ![i] = r]

\* the catch block of a handler: 500 with the handler's own message
Caught(r, msg) == [r EXCEPT !.pc = "done", !.status = 500, !.message = msg]

\* a command resolved, or rejected, for request r
Resolved(r) == [r EXCEPT !.replies = Append(@, "ok")]
Rejected(r) == [r EXCEPT !.replies = Append(@, "err")]

\* the response as it would be if the ETag were computed from the request
\* body string instead of the re-fetched record
CreateResponseTagOfRequest(r, dataString) ==
  IF dataString = Null
  THEN Caught(r, "Error creating plan")
  ELSE [r EXCEPT !.pc = "done", !.status = 201, !.ETag = etag(r.requestBodyString),
                 !.json = JSONparse(dataString)]

\* the response as it would be if it echoed the body as it was received
CreateResponseEcho(r, dataString) ==
  IF dataString = Null
  THEN Caught(r, "Error creating plan")
  ELSE [r EXCEPT !.pc = "done", !.status = 201, !.ETag = etag(dataString),
                 !.json = r.doc]

\* the response of POST after its GET answered dataString; etag(null) throws
\* a TypeError, which the catch block turns into 500
CreateResponse(r, dataString) ==
  IF dataString = Null
  THEN Caught(r, "Error creating plan")
  ELSE [r EXCEPT !.pc = "done", !.status = 201, !.ETag = etag(dataString),
                 !.json = JSONparse(dataString)]

\* the response as it would be if the 304 were never ended: the request hangs
ReadResponseNoEnd(r, dataString) ==
  IF dataString = Null
  THEN [r EXCEPT !.pc = "done", !.status = 404, !.message = "Plan not found"]
  ELSE LET etagHeader == etag(dataString)
       IN IF r.inm = etagHeader
          THEN [r EXCEPT !.pc = "hung"]
          ELSE [r EXCEPT !.pc = "done", !.status = 200, !.ETag = etagHeader,
                         !.json = JSONparse(dataString)]

\* the response as it would be if the ETag header echoed the request's tag
ReadResponseEchoTag(r, dataString) ==
  IF dataString = Null
  THEN [r EXCEPT !.pc = "done", !.status = 404, !.message = "Plan not found"]
  ELSE LET etagHeader == etag(dataString)
       IN IF r.inm = etagHeader
          THEN [r EXCEPT !.pc = "done", !.status = 304]
          ELSE [r EXCEPT !.pc = "done", !.status = 200,
                         !.ETag = IF r.inm = NoHeader THEN etagHeader ELSE r.inm,
                         !.json = JSONparse(dataString)]

\* the response as it would be under the weak comparison of entity tags
ReadResponseWeak(r, dataString) ==
  IF dataString = Null
  THEN [r EXCEPT !.pc = "done", !.status = 404, !.message = "Plan not found"]
  ELSE LET etagHeader == etag(dataString)
       IN IF r.inm.form \in {"strong", "weak"} /\ r.inm.hash = etagHeader.hash
          THEN [r EXCEPT !.pc = "done", !.status = 304]
          ELSE [r EXCEPT !.pc = "done", !.status = 200, !.ETag = etagHeader,
                         !.json = JSONparse(dataString)]

\* the response of GET /v1/plan/:id after its GET answered dataString
ReadResponse(r, dataString) ==
  IF dataString = Null
  THEN [r EXCEPT !.pc = "done", !.status = 404, !.message = "Plan not found"]
  ELSE LET etagHeader == etag(dataString)
       IN IF r.inm = etagHeader
          THEN [r EXCEPT !.pc = "done", !.status = 304]
          ELSE [r EXCEPT !.pc = "done", !.status = 200, !.ETag = etagHeader,
                         !.json = JSONparse(dataString)]

\* the response as it would be if the number of keys removed were ignored
DeleteResponseAlways200(r, result) ==
  [r EXCEPT !.pc = "done", !.status = 200, !.result = result,
            !.message = "Plan deleted successfully"]

\* the response of DELETE after DEL answered the number of keys removed
DeleteResponse(r, result) ==
  IF result = 0
  THEN [r EXCEPT !.pc = "done", !.status = 404, !.result = result,
                 !.message = "Plan not found"]
  ELSE [r EXCEPT !.pc = "done", !.status = 200, !.result = result,
                 !.message = "Plan deleted successfully"]

\* SET as it would be with the option NX: a record already held is kept
SetResolvedNX(i) ==
  /\ isReady
  /\ reqs[i].pc = "set"
  /\ writes' = writes + 1
  /\ store' = [store EXCEPT ![reqs[i].key] =
                 [val |-> IF @.val = Null THEN reqs[i].requestBodyString ELSE @.val,
                  ver |-> writes + 1]]
  /\ Put(i, [Resolved(reqs[i]) EXCEPT !.pc = "get", !.setVer = writes + 1,
                                      !.calls = Append(@, "get")])
  /\ UNCHANGED <<phase, isReady>>

\* SET as it would be if it merged the new members into the record held
SetResolvedMerge(i) ==
  /\ isReady
  /\ reqs[i].pc = "set"
  /\ writes' = writes + 1
  /\ LET old == JSONparse(store[reqs[i].key].val)
         new == JSONparse(reqs[i].requestBodyString)
         kept == SelectSeq(old, LAMBDA m : ~HasField(new, m[1]))
     IN store' = [store EXCEPT ![reqs[i].key] =
                    [val |-> JSONstringify(new \o kept), ver |-> writes + 1]]
  /\ Put(i, [Resolved(reqs[i]) EXCEPT !.pc = "get", !.setVer = writes + 1,
                                      !.calls = Append(@, "get")])
  /\ UNCHANGED <<phase, isReady>>

\* await client.set(objectId, requestBodyString) resolves; GET is sent
SetResolved(i) ==
  /\ isReady
  /\ reqs[i].pc = "set"
  /\ writes' = writes + 1
  /\ store' = [store EXCEPT ![reqs[i].key] =
                 [val |-> reqs[i].requestBodyString, ver |-> writes + 1]]
  /\ Put(i, [Resolved(reqs[i]) EXCEPT !.pc = "get", !.setVer = writes + 1,
                                      !.calls = Append(@, "get")])
  /\ UNCHANGED <<phase, isReady>>

\* await client.get(objectId) resolves in POST: the 201 response
CreateGetResolved(i) ==
  /\ isReady
  /\ reqs[i].kind = "create" /\ reqs[i].pc = "get"
  /\ Put(i, CreateResponse([Resolved(reqs[i]) EXCEPT
                              !.getVer = store[reqs[i].key].ver,
                              !.dataString = store[reqs[i].key].val],
                           store[reqs[i].key].val))
  /\ UNCHANGED <<phase, isReady, store, writes>>

\* the catch block as it would be if it sent the rejected command once more
CreateRejectedRetry(i) ==
  /\ reqs[i].kind = "create" /\ reqs[i].pc \in {"set", "get"}
  /\ Put(i, IF Len(reqs[i].calls) < 3
            THEN [Rejected(reqs[i]) EXCEPT !.calls = Append(@, reqs[i].pc)]
            ELSE Caught(Rejected(reqs[i]), "Error creating plan"))
  /\ UNCHANGED <<phase, isReady, store, writes>>

\* a Redis command of POST rejects
CreateRejected(i) ==
  /\ reqs[i].kind = "create" /\ reqs[i].pc \in {"set", "get"}
  /\ Put(i, Caught(Rejected(reqs[i]), "Error creating plan"))
  /\ UNCHANGED <<phase, isReady, store, writes>>

\* the read as it would be with GETDEL in place of GET
ReadGetResolvedGetDel(i) ==
  /\ isReady
  /\ reqs[i].kind = "read" /\ reqs[i].pc = "get"
  /\ Put(i, ReadResponse([Resolved(reqs[i]) EXCEPT
                            !.getVer = store[reqs[i].key].ver,
                            !.dataString = store[reqs[i].key].val],
                         store[reqs[i].key].val))
  /\ store' = [store EXCEPT ![reqs[i].key] = [val |-> Null, ver |-> @.ver]]
  /\ UNCHANGED <<phase, isReady, writes>>

\* await client.get(key) resolves in GET
ReadGetResolved(i) ==
  /\ isReady
  /\ reqs[i].kind = "read" /\ reqs[i].pc = "get"
  /\ Put(i, ReadResponse([Resolved(reqs[i]) EXCEPT
                            !.getVer = store[reqs[i].key].ver,
                            !.dataString = store[reqs[i].key].val],
                         store[reqs[i].key].val))
  /\ UNCHANGED <<phase, isReady, store, writes>>

ReadRejected(i) ==
  /\ reqs[i].kind = "read" /\ reqs[i].pc = "get"
  /\ Put(i, Caught(Rejected(reqs[i]), "Error retrieving plan"))
  /\ UNCHANGED <<phase, isReady, store, writes>>

\* the delete as it would be if DEL always answered 1
DelResolvedCountsOne(i) ==
  /\ isReady
  /\ reqs[i].pc = "del"
  /\ writes' = writes + 1
  /\ store' = [store EXCEPT ![reqs[i].key] = [val |-> Null, ver |-> writes + 1]]
  /\ Put(i, DeleteResponse([Resolved(reqs[i]) EXCEPT !.delVer = writes + 1], 1))
  /\ UNCHANGED <<phase, isReady>>

\* the delete as it would be with FLUSHALL in place of DEL
DelResolvedFlushAll(i) ==
  /\ isReady
  /\ reqs[i].pc = "del"
  /\ LET result == IF store[reqs[i].key].val = Null THEN 0 ELSE 1
     IN /\ writes' = writes + result
        /\ store' = IF result = 0 THEN store
                    ELSE [k \in Keys |-> [val |-> Null, ver |-> writes + 1]]
        /\ Put(i, DeleteResponse([Resolved(reqs[i]) EXCEPT
                                     !.delVer = IF result = 0 THEN 0 ELSE writes + 1],
                                  result))
  /\ UNCHANGED <<phase, isReady>>

\* await client.del(key) resolves in DELETE
DelResolved(i) ==
  /\ isReady
  /\ reqs[i].pc = "del"
  /\ LET result == IF store[reqs[i].key].val = Null THEN 0 ELSE 1
     IN /\ writes' = writes + result
        /\ store' = IF result = 0 THEN store
                    ELSE [store EXCEPT ![reqs[i].key] = [val |-> Null, ver |-> writes + 1]]
        /\ Put(i, DeleteResponse([Resolved(reqs[i]) EXCEPT
                                     !.delVer = IF result = 0 THEN 0 ELSE writes + 1],
                                  result))
  /\ UNCHANGED <<phase, isReady>>

DeleteRejected(i) ==
  /\ reqs[i].pc = "del"
  /\ Put(i, Caught(Rejected(reqs[i]), "Error deleting plan"))
  /\ UNCHANGED <<phase, isReady, store, writes>>

Next ==
  \/ ConnectResolved
  \/ ConnectRejected
  \/ ConnectionLost
  \/ ConnectionBack
  \/ \E doc \in Docs : PostPlan(doc)
  \/ \E key \in Keys, inm \in Headers : SentTo(key, inm) /\ GetPlan(key, inm)
  \/ \E key \in Keys : DeletePlan(key)
  \/ \E i \in 1..Len(reqs) : SetResolved(i)
  \/ \E i \in 1..Len(reqs) : CreateGetResolved(i)
  \/ \E i \in 1..Len(reqs) : CreateRejected(i)
  \/ \E i \in 1..Len(reqs) : ReadGetResolved(i)
  \/ \E i \in 1..Len(reqs) : ReadRejected(i)
  \/ \E i \in 1..Len(reqs) : DelResolved(i)
  \/ \E i \in 1..Len(reqs) : DeleteRejected(i)

Spec == Init /\ [][Next]_vars

\* Every command sent to Redis is answered at last, with a value or with an
\* error, and the continuation of the handler that awaits it then runs.
Reply(i) ==
  /\ i \in 1..Len(reqs)
  /\ \/ SetResolved(i) \/ CreateGetResolved(i) \/ CreateRejected(i)
     \/ ReadGetResolved(i) \/ ReadRejected(i)
     \/ DelResolved(i) \/ DeleteRejected(i)

SpecLive == Spec /\ \A i \in 1..MaxReq : WF_vars(Reply(i))

\* ================================================================ claims
Reqs == 1..Len(reqs)
IsCreate(i) == reqs[i].kind = "create"
IsRead(i) == reqs[i].kind = "read"
IsDelete(i) == reqs[i].kind = "delete"

\* C1 (round trip): when a create answered 201 for its own write and a read
\* of the same key gets the record of that write (no other create or delete
\* on the key took effect in between), the read answers 200 with the
\* date-normalized document of the create and with the ETag the create
\* returned, unless it carried exactly that ETag as If-None-Match.
C1_RoundTrip ==
  \A c \in Reqs, r \in Reqs :
    ( /\ IsCreate(c) /\ reqs[c].status = 201 /\ reqs[c].getVer = reqs[c].setVer
      /\ IsRead(r) /\ reqs[r].pc = "done" /\ reqs[r].key = reqs[c].key
      /\ reqs[r].getVer = reqs[c].setVer
      /\ reqs[r].inm # reqs[c].ETag )
    => /\ reqs[r].status = 200
       /\ reqs[r].json = transformDate(reqs[c].doc)
       /\ reqs[r].ETag = reqs[c].ETag

\* a create answered 201 and a read without If-None-Match then answered 200
\* with the document in its normalized form, which differs from the request
C1_Witness ==
  \E c \in Reqs, r \in Reqs :
    /\ IsCreate(c) /\ reqs[c].status = 201 /\ reqs[c].getVer = reqs[c].setVer
    /\ IsRead(r) /\ reqs[r].key = reqs[c].key /\ reqs[r].getVer = reqs[c].setVer
    /\ c < r /\ reqs[r].inm = NoHeader
    /\ reqs[r].status = 200
    /\ reqs[r].json # reqs[c].doc

C3_Overwrite ==
  \A c \in Reqs :
    (IsCreate(c) /\ reqs[c].setVer > 0) =>
      LET D2 == transformDate(reqs[c].doc)
      IN /\ store[reqs[c].key].ver = reqs[c].setVer
              => store[reqs[c].key].val = JSONstringify(D2)
         /\ \A r \in Reqs :
              ( /\ IsRead(r) /\ reqs[r].key = reqs[c].key
                /\ reqs[r].getVer = reqs[c].setVer /\ reqs[r].status = 200 )
              => /\ reqs[r].json = D2
                 /\ reqs[r].ETag = etag(JSONstringify(D2))
                 /\ \A m \in 1..Len(reqs[r].json) :
                      HasField(reqs[c].doc, reqs[r].json[m][1])

\* two creates on one key answered 201 one after the other, the first with a
\* member "plan" that the second lacks, and the key holds the second document
C3_Witness ==
  \E c1 \in Reqs, c2 \in Reqs :
    /\ IsCreate(c1) /\ IsCreate(c2) /\ reqs[c1].key = reqs[c2].key
    /\ reqs[c1].status = 201 /\ reqs[c2].status = 201
    /\ reqs[c1].getVer = reqs[c1].setVer /\ reqs[c1].setVer < reqs[c2].setVer
    /\ reqs[c2].getVer = reqs[c2].setVer
    /\ HasField(reqs[c1].doc, "plan") /\ ~HasField(reqs[c2].doc, "plan")
    /\ store[reqs[c2].key].ver = reqs[c2].setVer
    /\ ~HasField(JSONparse(store[reqs[c2].key].val), "plan")

\* C4 (delete): when the DEL of a delete resolves on a key that holds a
\* record the delete answers 200 and the key holds nothing afterwards, the
\* other keys being untouched; on a key that holds nothing it answers 404 and
\* the store is unchanged; and a read that gets the key as that delete left
\* it answers 404.
C4_Delete ==
  /\ [](\A d \in Reqs, r \in Reqs :
          ( /\ IsDelete(d) /\ reqs[d].status = 200
            /\ IsRead(r) /\ reqs[r].key = reqs[d].key
            /\ reqs[r].replies = <<"ok">> /\ reqs[r].getVer = reqs[d].delVer )
          => reqs[r].status = 404)
  /\ [][\A i \in Reqs :
          (reqs[i].pc = "del" /\ reqs'[i].replies = <<"ok">>)
          => IF store[reqs[i].key].val # Null
             THEN /\ reqs'[i].status = 200
                  /\ store'[reqs[i].key].val = Null
                  /\ \A k \in Keys \ {reqs[i].key} : store'[k] = store[k]
             ELSE /\ reqs'[i].status = 404
                  /\ store' = store]_vars

\* a delete answered 200 and a later read of the key answered 404
C4_Witness ==
  \E d \in Reqs, r \in Reqs :
    /\ IsDelete(d) /\ reqs[d].status = 200
    /\ IsRead(r) /\ d < r /\ reqs[r].key = reqs[d].key
    /\ reqs[r].getVer = reqs[d].delVer
    /\ reqs[r].status = 404

\* the request that arrives in this step, if one does
Arrives == Len(reqs') = Len(reqs) + 1
Arrived == reqs'[Len(reqs')]

\* C5 (validation rejection): a create that passed the gate and whose
\* normalized document violates the schema is answered 400 with a non-empty
\* errors list and has issued no storage call; the step that answers 400
\* leaves the store as it was; and every record the store holds decodes to a
\* document that satisfies the schema.
C5_ValidationRejection ==
  /\ [](/\ \A i \in Reqs :
             ( /\ IsCreate(i) /\ reqs[i].gate
               /\ ValidateErrors(planSchema, transformDate(reqs[i].doc)) # <<>> )
             => /\ reqs[i].status = 400 /\ reqs[i].pc = "done"
                /\ reqs[i].errors # <<>>
                /\ reqs[i].calls = <<>>
        /\ \A k \in Keys :
             store[k].val # Null
             => ValidateErrors(planSchema, JSONparse(store[k].val)) = <<>>)
  /\ [][(Arrives /\ Arrived.status = 400) => store' = store]_vars

\* one create was rejected for a missing required member and another for a
\* member of the wrong type
C5_Witness ==
  \E i \in Reqs, j \in Reqs :
    /\ IsCreate(i) /\ reqs[i].status = 400 /\ reqs[i].doc = PlanNoDate
    /\ reqs[i].errors = <<[keyword |-> "required", member |-> "creationDate"]>>
    /\ IsCreate(j) /\ reqs[j].status = 400 /\ reqs[j].doc = PlanNumId
    /\ reqs[j].errors = <<[keyword |-> "type", member |-> "objectId"]>>

\* C6 (missing identifier): a create that passed the gate and the schema
\* and whose objectId is absent or empty is answered 400 without an errors
\* list and has issued no storage call, and the step that answers it leaves
\* the store as it was.
C6_MissingIdentifier ==
  /\ [](\A i \in Reqs :
          ( /\ IsCreate(i) /\ reqs[i].gate
            /\ ValidateErrors(planSchema, transformDate(reqs[i].doc)) = <<>>
            /\ \/ ~HasField(reqs[i].doc, "objectId")
               \/ Field(reqs[i].doc, "objectId") = Str("") )
          => /\ reqs[i].status = 400 /\ reqs[i].pc = "done"
             /\ reqs[i].errors = <<>>
             /\ reqs[i].calls = <<>> /\ reqs[i].replies = <<>>)
  /\ [][(Arrives /\ Arrived.status = 400 /\ Arrived.errors = <<>>)
          => store' = store]_vars

\* a create with an empty objectId passed the schema and was answered 400
C6_Witness ==
  \E i \in Reqs :
    /\ IsCreate(i) /\ reqs[i].doc = PlanEmptyId /\ reqs[i].gate
    /\ reqs[i].status = 400 /\ reqs[i].errors = <<>>
    /\ reqs[i].message = "Missing objectId in the request body."

C8_ReadinessGate ==
  /\ [][(Arrives /\ ~isReady)
          => /\ Arrived.status = 500 /\ Arrived.pc = "done"
             /\ Arrived.calls = <<>>
             /\ store' = store]_vars
  /\ [][\A i \in Reqs : reqs[i].pc = "done" => reqs'[i] = reqs[i]]_vars
  /\ [](\A i \in Reqs : reqs[i].calls # <<>> => reqs[i].gate)

\* a create of a valid document and a delete of a key that holds a record
\* were both answered 500 at the gate, and the record is still there
C8_Witness ==
  \E i \in Reqs, j \in Reqs :
    /\ IsCreate(i) /\ reqs[i].doc = PlanA2 /\ ~reqs[i].gate /\ reqs[i].status = 500
    /\ IsDelete(j) /\ reqs[j].key = "k1" /\ ~reqs[j].gate /\ reqs[j].status = 500
    /\ store["k1"].val = JSONstringify(transformDate(PlanA))

\* C9 (status codes): a request is answered 500 only if it was rejected at
\* the readiness gate or one of its own storage calls was rejected; so a
\* create whose SET and GET both resolved is answered 201.
C9_StatusCodes ==
  \A i \in Reqs :
    reqs[i].status = 500
    => \/ ~reqs[i].gate
       \/ \E n \in 1..Len(reqs[i].replies) : reqs[i].replies[n] = "err"

\* C10 as claimed: every 201 of a create carries the normalized document of
\* that create and the fingerprint of its serialization.
C10_ReturnsOwnDocument ==
  \A c \in Reqs :
    (IsCreate(c) /\ reqs[c].status = 201)
    => /\ reqs[c].json = transformDate(reqs[c].doc)
       /\ reqs[c].ETag = etag(JSONstringify(transformDate(reqs[c].doc)))

\* C10 (create returns what the key holds): every 201 of a create carries
\* the normalized document, and the fingerprint of its serialization, of the
\* create whose SET was the last on the key before the GET of the answered
\* create; that is its own document when no other SET on the key took effect
\* between its SET and its GET.
C10_ReturnsLastWritten ==
  \A c \in Reqs :
    (IsCreate(c) /\ reqs[c].status = 201)
    => /\ \E w \in Reqs :
            /\ IsCreate(w) /\ reqs[w].key = reqs[c].key
            /\ reqs[w].setVer = reqs[c].getVer /\ reqs[w].setVer >= reqs[c].setVer
            /\ reqs[c].json = transformDate(reqs[w].doc)
            /\ reqs[c].ETag = etag(JSONstringify(transformDate(reqs[w].doc)))
       /\ reqs[c].getVer = reqs[c].setVer
            => /\ reqs[c].json = transformDate(reqs[c].doc)
               /\ reqs[c].ETag = etag(JSONstringify(transformDate(reqs[c].doc)))

\* two creates on one key ran concurrently; one was answered 201 with the
\* document of the other, the other with its own normalized document
C10_Witness ==
  \E c \in Reqs, w \in Reqs :
    /\ c # w /\ IsCreate(c) /\ IsCreate(w) /\ reqs[c].key = reqs[w].key
    /\ reqs[c].status = 201 /\ reqs[w].status = 201
    /\ reqs[c].getVer = reqs[w].setVer /\ reqs[w].getVer = reqs[w].setVer
    /\ reqs[c].doc # reqs[w].doc
    /\ reqs[c].json = transformDate(reqs[w].doc)
    /\ reqs[w].json # reqs[w].doc

\* C11 (no partial writes): a create that was answered 500 has not left
\* its document in the store: the key does not hold the record of its SET.
C11_NoPartialWrite ==
  \A c \in Reqs :
    (IsCreate(c) /\ reqs[c].status = 500)
    => ~(reqs[c].setVer > 0 /\ store[reqs[c].key].ver = reqs[c].setVer)

\* the creates on key k whose SET has taken effect, and the deletes on k
\* that removed a record
SetsOn(k) == {c \in Reqs : IsCreate(c) /\ reqs[c].key = k /\ reqs[c].setVer > 0}
DelsOn(k) == {d \in Reqs : IsDelete(d) /\ reqs[d].key = k /\ reqs[d].delVer > 0}

\* the documents a read of key k can be answered with: the normalized
\* documents of the creates on k and of the records held at boot
WholeDocs(k) ==
  {transformDate(reqs[c].doc) : c \in SetsOn(k)}
    \cup {transformDate(e) : e \in {f \in Earlier : Field(f, "objectId") = Str(k)}}

\* C12 (last write wins, no torn reads): a key on which no delete took
\* effect after the last SET holds exactly the serialization of the create
\* whose SET was the last on it; a read whose GET resolved answers 404 only if
\* the key held nothing at that GET, and answers 200 only with one whole
\* document that a create wrote (or that the key held at boot).
C12_LastWriteWins ==
  /\ \A k \in Keys : \A c \in SetsOn(k) :
       ( /\ \A o \in SetsOn(k) : reqs[o].setVer <= reqs[c].setVer
         /\ \A d \in DelsOn(k) : reqs[d].delVer < reqs[c].setVer )
       => store[k].val = JSONstringify(transformDate(reqs[c].doc))
  /\ \A r \in Reqs :
       (IsRead(r) /\ reqs[r].replies = <<"ok">>)
       => /\ reqs[r].status = 404 <=> reqs[r].dataString = Null
          /\ reqs[r].status = 200 => reqs[r].json \in WholeDocs(reqs[r].key)

\* two creates with different documents ran concurrently on one key (the
\* first re-fetched after the SET of the second) and the key holds the
\* document of the second
C12_Witness ==
  \E c1 \in Reqs, c2 \in Reqs :
    /\ IsCreate(c1) /\ IsCreate(c2) /\ reqs[c1].key = reqs[c2].key
    /\ reqs[c1].doc # reqs[c2].doc
    /\ reqs[c1].setVer > 0 /\ reqs[c1].setVer < reqs[c2].setVer
    /\ reqs[c1].getVer = reqs[c2].setVer
    /\ reqs[c1].pc = "done" /\ reqs[c2].pc = "done"
    /\ store[reqs[c2].key].val = JSONstringify(transformDate(reqs[c2].doc))
    /\ store[reqs[c2].key].val # JSONstringify(transformDate(reqs[c1].doc))

\* C13 (key invariant): every record the store holds under a key decodes
\* to a document whose objectId is that key, and the key is not empty.
C13_KeyInvariant ==
  \A k \in Keys :
    store[k].val # Null
    => /\ k # ""
       /\ HasField(JSONparse(store[k].val), "objectId")
       /\ Field(JSONparse(store[k].val), "objectId") = Str(k)

\* a create whose objectId is not the first member of its document has
\* written its record under "k2"
C13_Witness ==
  \E c \in Reqs :
    /\ IsCreate(c) /\ reqs[c].doc = PlanB /\ reqs[c].setVer > 0
    /\ store["k2"].ver = reqs[c].setVer
    /\ store["k2"].val # Null

\* C14 (per-key lifecycle): in every step, a key that comes to hold a
\* record, or other bytes, does so by the SET of a create whose document has
\* that key as objectId, and a key that ceases to hold a record does so by
\* the DEL of a delete on that key; no other step (of a read, of a create
\* answered 400, of a request rejected at the gate) changes any key.
C14_Lifecycle ==
  [][\A k \in Keys :
       store'[k].val # store[k].val
       => IF store'[k].val # Null
          THEN \E i \in Reqs :
                 /\ IsCreate(i) /\ reqs[i].pc = "set" /\ reqs'[i].pc = "get"
                 /\ Field(transformDate(reqs[i].doc), "objectId") = Str(k)
                 /\ store'[k].val = JSONstringify(transformDate(reqs[i].doc))
          ELSE \E i \in Reqs :
                 /\ IsDelete(i) /\ reqs[i].pc = "del" /\ reqs'[i].pc = "done"
                 /\ reqs[i].key = k]_vars

\* a key was given a record by a create and then lost it to a delete
C14_Witness ==
  \E c \in Reqs, d \in Reqs :
    /\ IsCreate(c) /\ IsDelete(d) /\ reqs[c].key = reqs[d].key
    /\ reqs[c].setVer > 0 /\ reqs[d].delVer > reqs[c].setVer
    /\ store[reqs[d].key].val = Null
    /\ store[reqs[d].key].ver = reqs[d].delVer

\* what a request asked for, and what it was answered
Asked(i) == <<reqs[i].kind, reqs[i].doc, reqs[i].key, reqs[i].inm>>
Answered(i) == <<reqs[i].status, reqs[i].message, reqs[i].errors, reqs[i].json,
                 reqs[i].ETag>>

C16_BodyETagConsistency ==
  [][\A i \in Reqs :
       ( /\ reqs[i].pc = "get" /\ reqs'[i].pc = "done"
         /\ reqs'[i].status \in {200, 201} )
       => /\ reqs'[i].ETag = etag(store[reqs[i].key].val)
          /\ reqs'[i].json = JSONparse(store[reqs[i].key].val)
          /\ Cardinality({n \in 1..Len(reqs'[i].calls) : reqs'[i].calls[n] = "get"}) = 1
          /\ reqs'[i].status = 201 <=> IsCreate(i)]_vars

\* a create was answered 201 after another create had overwritten its
\* record: the body is not its own document and the ETag is the fingerprint
\* of the body's serialization, not of its own
C16_Witness ==
  \E c \in Reqs :
    /\ IsCreate(c) /\ reqs[c].status = 201
    /\ reqs[c].getVer > reqs[c].setVer
    /\ reqs[c].json # transformDate(reqs[c].doc)
    /\ reqs[c].ETag = etag(JSONstringify(reqs[c].json))
    /\ reqs[c].ETag # etag(reqs[c].requestBodyString)

\* C17 (delete is decided by the count): in the step in which the DEL of
\* a delete resolves, the delete answers 200 exactly when that DEL removes the
\* record of its key and 404 exactly when the key holds none; so of the
\* deletes that answered 200 on one key, any two have a SET on that key
\* between them.
C17_DeleteByCount ==
  /\ [][\A i \in Reqs :
          (reqs[i].pc = "del" /\ reqs'[i].replies = <<"ok">>)
          => /\ reqs'[i].status \in {200, 404}
             /\ reqs'[i].status = 200
                  <=> (store[reqs[i].key].val # Null /\ store'[reqs[i].key].val = Null)
             /\ reqs'[i].status = 404
                  <=> (store[reqs[i].key].val = Null /\ store' = store)
             /\ reqs'[i].result = IF reqs'[i].status = 200 THEN 1 ELSE 0]_vars
  /\ [](\A d1 \in Reqs, d2 \in Reqs :
          ( /\ IsDelete(d1) /\ IsDelete(d2) /\ reqs[d1].key = reqs[d2].key
            /\ reqs[d1].status = 200 /\ reqs[d2].status = 200
            /\ reqs[d1].delVer < reqs[d2].delVer )
          => \E c \in SetsOn(reqs[d1].key) :
               reqs[d1].delVer < reqs[c].setVer /\ reqs[c].setVer < reqs[d2].delVer)

\* two deletes of a key that held a record from boot overlapped: the one that
\* arrived first answered 404, the other 200, and no create wrote the key
C17_Witness ==
  \E d1 \in Reqs, d2 \in Reqs :
    /\ d1 < d2 /\ IsDelete(d1) /\ IsDelete(d2) /\ reqs[d1].key = reqs[d2].key
    /\ reqs[d1].replies = <<"ok">> /\ reqs[d1].status = 404
    /\ reqs[d2].replies = <<"ok">> /\ reqs[d2].status = 200
    /\ SetsOn(reqs[d1].key) = {}

\* the storage calls a request of each kind may have issued
CallsOf(kind) ==
  IF kind = "create" THEN {<<>>, <<"set">>, <<"set", "get">>}
  ELSE IF kind = "read" THEN {<<>>, <<"get">>}
  ELSE {<<>>, <<"del">>}

\* C19 (no retries): a request has issued each of its storage calls at most
\* once and in order (create: SET then GET; read: GET; delete: DEL); a call
\* is issued only after the one before it has resolved; and a request one of
\* whose calls was rejected has issued no call after it and is answered 500.
C19_NoRetries ==
  \A i \in Reqs :
    /\ reqs[i].calls \in CallsOf(reqs[i].kind)
    /\ Len(reqs[i].replies) <= Len(reqs[i].calls)
    /\ Len(reqs[i].calls) <= Len(reqs[i].replies) + 1
    /\ \A n \in 1..Len(reqs[i].replies) :
         reqs[i].replies[n] = "err"
         => /\ n = Len(reqs[i].calls)
            /\ reqs[i].pc = "done" /\ reqs[i].status = 500

\* the SET of a create resolved and its GET was rejected: two calls, one
\* answer 500
C19_Witness ==
  \E c \in Reqs :
    /\ IsCreate(c) /\ reqs[c].calls = <<"set", "get">>
    /\ reqs[c].replies = <<"ok", "err">>
    /\ reqs[c].pc = "done" /\ reqs[c].status = 500

Statuses == {200, 201, 304, 400, 404, 500}

\* C18 (answered exactly once): provided every command sent to Redis is
\* answered, every request that has arrived is answered at last, with one of
\* the six statuses; a request is answered exactly when its handler has
\* finished, and a request that has been answered never changes again.
C18_AnsweredOnce ==
  /\ \A i \in 1..MaxReq :
       (i <= Len(reqs))
         ~> (i <= Len(reqs) /\ reqs[i].pc = "done" /\ reqs[i].status \in Statuses)
  /\ [](\A i \in Reqs : reqs[i].pc = "done" <=> reqs[i].status \in Statuses)
  /\ [][\A i \in Reqs : reqs[i].status # 0 => reqs'[i] = reqs[i]]_vars

\* a request was answered 500 because its command was rejected, and a request
\* that arrived later was served
C18_Witness ==
  \E i \in Reqs, j \in Reqs :
    /\ i < j
    /\ reqs[i].status = 500 /\ reqs[i].gate /\ reqs[i].replies # <<>>
    /\ reqs[j].status \in {200, 201} /\ reqs[j].replies # <<>>

\* C20 (fail-fast boot): requests are served only while the server listens,
\* and it listens only after client.connect() has resolved, at which moment
\* the client is ready; once the connect has been rejected the server never
\* listens and no request is ever served; once it listens it keeps listening,
\* whatever happens to the connection.
C20_FailFastBoot ==
  /\ [](reqs # <<>> => phase = "listening")
  /\ [](phase = "failed" => reqs = <<>> /\ ~isReady)
  /\ [][/\ phase = "failed" => phase' = "failed"
        /\ phase = "listening" => phase' = "listening"
        /\ (phase # "listening" /\ phase' = "listening")
             => (phase = "connecting" /\ isReady')
        /\ Arrives => phase = "listening"]_vars

\* the connection was lost after start-up: one request was answered 500 at
\* the gate, and a request that arrived after it was served
C20_Witness ==
  \E i \in Reqs, j \in Reqs :
    /\ i < j /\ phase = "listening"
    /\ ~reqs[i].gate /\ reqs[i].status = 500
    /\ reqs[j].gate /\ reqs[j].status \in {200, 201}

====
